---------------------------- MODULE Spec2Model ----------------------------
(***************************************************************************)
(* A model of qjson (FileParser): the JObject value model, JParser and     *)
(* JWriter of Json.cpp.                                                    *)
(*                                                                         *)
(* Text is a sequence of characters; a character is a one-element string   *)
(* ("a", "[", "\\" for the backslash, "\"" for the double quote), and the  *)
(* control characters have names (NUL, BS, FF, LF, CR, TAB).               *)
(* A JObject is the record [m_type, m_value] of the class.  The payload is *)
(*   JNull   FALSE           (null_t() is bool)                            *)
(*   JInt    an integer of the int_t range                                 *)
(*   JBool   a BOOLEAN                                                     *)
(*   JDouble [m, c]: the value m / 10^c (decimal values are kept exact);   *)
(*           c = -1 stands for a NaN                                       *)
(*   JString a sequence of characters                                      *)
(*   JList   a sequence of JObjects                                        *)
(*   JDict   a sequence of <<key, JObject>> with distinct keys, in the     *)
(*           map's iteration order (a new key goes to the end: one of the  *)
(*           orders an unordered_map may expose).                          *)
(***************************************************************************)
EXTENDS Integers, Sequences, FiniteSets, TLC

VARIABLES
    jobject,   \* the JObject the client holds
    other,     \* a second JObject of the client: the target of a copy or a move
    call,      \* the client's last call on it: [name, self, x, threw], self the JObject before
    ret,       \* what the last call returned: [has, val]
    data,      \* the text buffer handed to JParser::parse
    origin,    \* where data comes from: "none", "write", "formatWrite", "typed", "comma"
    result,    \* what JParser::parse did with data
    str,       \* what JWriter::write made of the parsed JObject
    pc         \* "client", "text", "parsed", "rewritten"

vars == <<jobject, other, call, ret, data, origin, result, str, pc>>

---------------------------------------------------------------------------
(* Characters *)

NUL == "NUL"
BS  == "BS"
FF  == "FF"
LF  == "\n"
CR  == "\r"
TAB == "\t"
BSL == "\\"
DQ  == "\""

Digits == {"0", "1", "2", "3", "4", "5", "6", "7", "8", "9"}

\* c - '0' for the characters JParser::getNumber can meet in a literal's span
\* ('0' is 48, '.' is 46, '-' is 45).
MinusZero(c) ==
    CASE c = "0" -> 0 [] c = "1" -> 1 [] c = "2" -> 2 [] c = "3" -> 3
      [] c = "4" -> 4 [] c = "5" -> 5 [] c = "6" -> 6 [] c = "7" -> 7
      [] c = "8" -> 8 [] c = "9" -> 9 [] c = "." -> -2 [] c = "-" -> -3

DigitChar(d) ==
    CASE d = 0 -> "0" [] d = 1 -> "1" [] d = 2 -> "2" [] d = 3 -> "3"
      [] d = 4 -> "4" [] d = 5 -> "5" [] d = 6 -> "6" [] d = 7 -> "7"
      [] d = 8 -> "8" [] d = 9 -> "9"

RECURSIVE Pow10(_)
Pow10(n) == IF n = 0 THEN 1 ELSE 10 * Pow10(n - 1)

RECURSIVE Pow2(_)
Pow2(n) == IF n = 0 THEN 1 ELSE 2 * Pow2(n - 1)

---------------------------------------------------------------------------
(* int_t.  The code's int_t is long long (8 bytes); TLC's integers are 32  *)
(* bits wide, so the model runs the same arithmetic at SizeofIntT bytes.   *)

SizeofIntT == 1

IntBits == 8 * SizeofIntT
IntMax  == Pow2(IntBits - 1) - 1
IntMin  == -Pow2(IntBits - 1)

\* conversion of an integer to int_t (modular since C++20)
ToIntT(x) == ((x - IntMin) % Pow2(IntBits)) + IntMin

---------------------------------------------------------------------------
(* JObject: constructors *)

JObject_Null == [m_type |-> "JNull", m_value |-> FALSE]

JObject_Int(value) == [m_type |-> "JInt", m_value |-> value]

JObject_Bool(value) == [m_type |-> "JBool", m_value |-> value]

JObject_Double(m, c) == [m_type |-> "JDouble", m_value |-> [m |-> m, c |-> c]]

JObject_String(s) == [m_type |-> "JString", m_value |-> s]

JObject_List(l) == [m_type |-> "JList", m_value |-> l]

JObject_Dict(d) == [m_type |-> "JDict", m_value |-> d]

\* JObject(JValueType jvt): the empty value of the kind
JObject_Type(jvt) ==
    CASE jvt = "JNull"   -> JObject_Null
      [] jvt = "JInt"    -> JObject_Int(0)
      [] jvt = "JDouble" -> JObject_Double(0, 0)
      [] jvt = "JBool"   -> JObject_Bool(FALSE)
      [] jvt = "JString" -> JObject_String(<<>>)
      [] jvt = "JList"   -> JObject_List(<<>>)
      [] jvt = "JDict"   -> JObject_Dict(<<>>)

---------------------------------------------------------------------------
(* JObject: equality *)

\* a double_t that is not a number
NaN == [m |-> 0, c |-> -1]

IsNaN(a) == a.c < 0

\* operator== of two double_t: false when either is a NaN
DoubleEq(a, b) ==
    IF IsNaN(a) \/ IsNaN(b) THEN FALSE
    ELSE a.m * Pow10(b.c) = b.m * Pow10(a.c)

\* dict_t::find: the index of key in the map, 0 when absent
RECURSIVE DictFind(_, _, _)
DictFind(d, key, i) ==
    IF i > Len(d) THEN 0
    ELSE IF d[i][1] = key THEN i
    ELSE DictFind(d, key, i + 1)

RECURSIVE JEq(_, _)
RECURSIVE ListEqFrom(_, _, _)
RECURSIVE DictEqFrom(_, _, _)

ListEqFrom(local, jolist, i) ==
    IF i > Len(local) THEN TRUE
    ELSE IF ~JEq(local[i], jolist[i]) THEN FALSE
    ELSE ListEqFrom(local, jolist, i + 1)

\* the JDict loop comparing the maps entry by entry in iteration order
DictEqFrom_InOrder(local, joDict, i) ==
    IF i > Len(local) THEN TRUE
    ELSE IF local[i][1] # joDict[i][1] THEN FALSE
    ELSE IF ~JEq(local[i][2], joDict[i][2]) THEN FALSE
    ELSE DictEqFrom(local, joDict, i + 1)

DictEqFrom(local, joDict, i) ==
    IF i > Len(local) THEN TRUE
    ELSE LET j == DictFind(joDict, local[i][1], 1) IN
         IF j = 0 THEN FALSE
         ELSE IF ~JEq(local[i][2], joDict[j][2]) THEN FALSE
         ELSE DictEqFrom(local, joDict, i + 1)

\* operator==(const JObject &, const JObject &)
JEq(joa, jobj) ==
    IF joa.m_type # jobj.m_type THEN FALSE
    ELSE CASE jobj.m_type = "JNull"   -> TRUE
           [] jobj.m_type = "JInt"    -> joa.m_value = jobj.m_value
           [] jobj.m_type = "JDouble" -> DoubleEq(joa.m_value, jobj.m_value)
           [] jobj.m_type = "JBool"   -> joa.m_value = jobj.m_value
           [] jobj.m_type = "JString" -> joa.m_value = jobj.m_value
           [] jobj.m_type = "JList"   ->
                IF (Len(joa.m_value) = 0) # (Len(jobj.m_value) = 0) THEN FALSE
                ELSE IF Len(joa.m_value) # Len(jobj.m_value) THEN FALSE
                ELSE ListEqFrom(joa.m_value, jobj.m_value, 1)
           [] jobj.m_type = "JDict"   ->
                IF Len(joa.m_value) = 0 /\ Len(jobj.m_value) = 0 THEN TRUE
                ELSE IF (Len(joa.m_value) = 0) # (Len(jobj.m_value) = 0) THEN FALSE
                ELSE IF Len(joa.m_value) # Len(jobj.m_value) THEN FALSE
                ELSE DictEqFrom(joa.m_value, jobj.m_value, 1)

---------------------------------------------------------------------------
(* JObject: growth.  A call returns [threw, obj]: whether it threw, and the *)
(* JObject after it.                                                       *)

\* JObject::push_back(const JObject &)
JObject_push_back(self, x) ==
    IF self.m_type # "JNull" /\ self.m_type # "JList"
    THEN [threw |-> TRUE, obj |-> self]
    ELSE IF self.m_type = "JNull"
    THEN \* the promoted list gets x inside the branch and once more after it
         [threw |-> FALSE, obj |-> JObject_List(Append(Append(<<>>, x), x))]
    ELSE [threw |-> FALSE, obj |-> JObject_List(Append(self.m_value, x))]

\* JObject::push_back(JObject &&): the first push moves x away, so the second
\* one pushes what the move constructor left behind, a JObject of type JNull
\* (its moved-from payload is never read: every reader looks at m_type first).
JObject_push_back_move(self, x) ==
    IF self.m_type # "JNull" /\ self.m_type # "JList"
    THEN [threw |-> TRUE, obj |-> self]
    ELSE IF self.m_type = "JNull"
    THEN [threw |-> FALSE, obj |-> JObject_List(Append(Append(<<>>, x), JObject_Null))]
    ELSE [threw |-> FALSE, obj |-> JObject_List(Append(self.m_value, x))]

\* JObject::operator[](std::string_view) followed by the assignment of x
JObject_key_assign(self, key, x) ==
    IF self.m_type # "JNull" /\ self.m_type # "JDict"
    THEN [threw |-> TRUE, obj |-> self]
    ELSE LET local_dict == IF self.m_type = "JNull" THEN <<>> ELSE self.m_value
             iter == DictFind(local_dict, key, 1)
         IN  IF iter = 0
             THEN [threw |-> FALSE,
                   obj |-> JObject_Dict(Append(local_dict, <<key, x>>))]
             ELSE [threw |-> FALSE,
                   obj |-> JObject_Dict([local_dict EXCEPT ![iter] = <<key, x>>])]

---------------------------------------------------------------------------
(* JObject: element access, removal, accessors.  A call returns            *)
(* [threw, obj, ret]: whether it threw, the JObject after it, and what it  *)
(* returned (for operator[] the element the returned reference names).     *)

Threw(self) == [threw |-> TRUE, obj |-> self, ret |-> JObject_Null]

\* k default-constructed JObjects: what list_t::resize appends
Nulls(k) == [i \in 1..k |-> JObject_Null]

\* operator[] with resize(iter + 2) for resize(iter + 1)
JObject_index_ResizeTooFar(self, iter) ==
    IF self.m_type # "JNull" /\ self.m_type # "JList" THEN Threw(self)
    ELSE LET local_list == IF self.m_type = "JNull" THEN <<>> ELSE self.m_value
             resized    == IF iter >= Len(local_list)
                           THEN local_list \o Nulls(iter + 2 - Len(local_list))
                           ELSE local_list
         IN  [threw |-> FALSE, obj |-> JObject_List(resized), ret |-> resized[iter + 1]]

\* JObject::operator[](std::size_t), non-const
JObject_index(self, iter) ==
    IF self.m_type # "JNull" /\ self.m_type # "JList" THEN Threw(self)
    ELSE LET local_list == IF self.m_type = "JNull" THEN <<>> ELSE self.m_value
             resized    == IF iter >= Len(local_list)
                           THEN local_list \o Nulls(iter + 1 - Len(local_list))
                           ELSE local_list
         IN  [threw |-> FALSE, obj |-> JObject_List(resized), ret |-> resized[iter + 1]]

\* operator[] with insert_or_assign for emplace: a key that is there is reset
JObject_key_Reset(self, key) ==
    IF self.m_type # "JNull" /\ self.m_type # "JDict" THEN Threw(self)
    ELSE LET local_dict == IF self.m_type = "JNull" THEN <<>> ELSE self.m_value
             iter       == DictFind(local_dict, key, 1)
         IN  IF iter = 0
             THEN [threw |-> FALSE,
                   obj |-> JObject_Dict(Append(local_dict, <<key, JObject_Null>>)),
                   ret |-> JObject_Null]
             ELSE [threw |-> FALSE,
                   obj |-> JObject_Dict([local_dict EXCEPT ![iter] = <<key, JObject_Null>>]),
                   ret |-> JObject_Null]

\* JObject::operator[](std::string_view), non-const
JObject_key(self, key) ==
    IF self.m_type # "JNull" /\ self.m_type # "JDict" THEN Threw(self)
    ELSE LET local_dict == IF self.m_type = "JNull" THEN <<>> ELSE self.m_value
             iter       == DictFind(local_dict, key, 1)
         IN  IF iter = 0
             THEN [threw |-> FALSE,
                   obj |-> JObject_Dict(Append(local_dict, <<key, JObject_Null>>)),
                   ret |-> JObject_Null]
             ELSE [threw |-> FALSE, obj |-> JObject_Dict(local_dict),
                   ret |-> local_dict[iter][2]]

\* a const operator[] that does what the non-const one does
JObject_index_const_Grows(self, iter) == JObject_index(self, iter)

\* JObject::operator[](std::size_t) const
JObject_index_const(self, iter) ==
    IF self.m_type # "JNull" /\ self.m_type # "JList" THEN Threw(self)
    ELSE IF self.m_type = "JNull" THEN Threw(self)
    ELSE IF iter >= Len(self.m_value) THEN Threw(self)
    ELSE [threw |-> FALSE, obj |-> self, ret |-> self.m_value[iter + 1]]

\* JObject::operator[](std::string_view) const
JObject_key_const(self, key) ==
    IF self.m_type # "JNull" /\ self.m_type # "JDict" THEN Threw(self)
    ELSE IF self.m_type = "JNull" THEN Threw(self)
    ELSE LET iter == DictFind(self.m_value, key, 1) IN
         IF iter = 0 THEN Threw(self)
         ELSE [threw |-> FALSE, obj |-> self, ret |-> self.m_value[iter][2]]

\* JObject::pop_back
JObject_pop_back(self) ==
    IF self.m_type = "JList"
    THEN IF Len(self.m_value) = 0 THEN Threw(self)
         ELSE [threw |-> FALSE,
               obj |-> JObject_List(SubSeq(self.m_value, 1, Len(self.m_value) - 1)),
               ret |-> JObject_Null]
    ELSE Threw(self)

\* JObject::hasMember
JObject_hasMember(self, key) ==
    IF self.m_type # "JDict" THEN Threw(self)
    ELSE [threw |-> FALSE, obj |-> self, ret |-> DictFind(self.m_value, key, 1) # 0]

\* the typed accessors and the JValueType each requires
Accessors ==
    {"getInt", "getDouble", "getBool", "getString", "getPMRString", "getList", "getDict"}

AccessorType(name) ==
    CASE name = "getInt"       -> "JInt"
      [] name = "getDouble"    -> "JDouble"
      [] name = "getBool"      -> "JBool"
      [] name = "getString"    -> "JString"
      [] name = "getPMRString" -> "JString"
      [] name = "getList"      -> "JList"
      [] name = "getDict"      -> "JDict"

\* an accessor that hands out the payload without looking at m_type
JObject_get_Unchecked(self, name) ==
    [threw |-> FALSE, obj |-> self, ret |-> self.m_value]

\* JObject::getInt .. JObject::getPMRString
JObject_get(self, name) ==
    IF self.m_type # AccessorType(name) THEN Threw(self)
    ELSE [threw |-> FALSE, obj |-> self, ret |-> self.m_value]

---------------------------------------------------------------------------
(* JObject: copy and move.  A move leaves the source with m_type JNull and  *)
(* a moved-from m_value: the variant keeps its alternative, a scalar keeps  *)
(* its value, a string, list or map is left valid but unspecified.         *)

MovedFromValues(jobj) ==
    IF jobj.m_type \in {"JString", "JList", "JDict"} THEN {<<>>, jobj.m_value}
    ELSE {jobj.m_value}

\* a move constructor that leaves m_type of the source as it was
JObject_move_KeepType(jobj, left) ==
    [to   |-> [m_type |-> jobj.m_type, m_value |-> jobj.m_value],
     from |-> [m_type |-> jobj.m_type, m_value |-> left]]

\* JObject::JObject(JObject &&): the new JObject and the source after it,
\* left being the source's moved-from m_value
JObject_move(jobj, left) ==
    [to   |-> [m_type |-> jobj.m_type, m_value |-> jobj.m_value],
     from |-> [m_type |-> "JNull", m_value |-> left]]

\* JObject::operator=(JObject &&); same says this == &jobject
JObject_move_assign(self, jobj, same, left) ==
    IF same THEN [to |-> self, from |-> self]
    ELSE [to   |-> [m_type |-> jobj.m_type, m_value |-> jobj.m_value],
          from |-> [m_type |-> "JNull", m_value |-> left]]

\* JObject::operator=(const JObject &)
JObject_copy_assign(self, jobj) == [m_type |-> jobj.m_type, m_value |-> jobj.m_value]

---------------------------------------------------------------------------
(* JWriter.  A write returns [threw, s]: whether it threw, and the text.    *)

RECURSIVE NatToString(_)
NatToString(n) ==
    IF n < 10 THEN <<DigitChar(n)>>
    ELSE NatToString(n \div 10) \o <<DigitChar(n % 10)>>

\* std::to_string(long long)
IntToString(n) == IF n < 0 THEN <<"-">> \o NatToString(-n) ELSE NatToString(n)

RECURSIVE FixedDigits(_, _)
\* the k low decimal digits of n, zero padded
FixedDigits(n, k) ==
    IF k = 0 THEN <<>> ELSE FixedDigits(n \div 10, k - 1) \o <<DigitChar(n % 10)>>

\* std::to_string(long double): "%Lf", six digits after the point, rounded
DoubleToString(d) ==
    IF IsNaN(d) THEN <<"n", "a", "n">> ELSE
    LET mag  == IF d.m < 0 THEN -d.m ELSE d.m
        whole == mag \div Pow10(d.c)
        part  == mag % Pow10(d.c)
        frac  == IF d.c <= 6 THEN part * Pow10(6 - d.c)
                 ELSE (part + (Pow10(d.c - 6) \div 2)) \div Pow10(d.c - 6)
    IN  (IF d.m < 0 THEN <<"-">> ELSE <<>>)
        \o NatToString(whole + frac \div Pow10(6)) \o <<".">>
        \o FixedDigits(frac % Pow10(6), 6)

\* EscapeChar without the case for the backslash
EscapeChar_NoBackslash(c) ==
    CASE c = LF  -> <<BSL, "n">>
      [] c = BS  -> <<BSL, "b">>
      [] c = FF  -> <<BSL, "f">>
      [] c = CR  -> <<BSL, "r">>
      [] c = TAB -> <<BSL, "t">>
      [] c = DQ  -> <<BSL, DQ>>
      [] OTHER   -> <<c>>

\* the writer's switch over one character of a string value
EscapeChar(c) ==
    CASE c = LF  -> <<BSL, "n">>
      [] c = BS  -> <<BSL, "b">>
      [] c = FF  -> <<BSL, "f">>
      [] c = CR  -> <<BSL, "r">>
      [] c = TAB -> <<BSL, "t">>
      [] c = BSL -> <<BSL, BSL>>
      [] c = DQ  -> <<BSL, DQ>>
      [] OTHER   -> <<c>>

RECURSIVE EscapeFrom(_, _)
EscapeFrom(localString, i) ==
    IF i > Len(localString) THEN <<>>
    ELSE EscapeChar(localString[i]) \o EscapeFrom(localString, i + 1)

HasNul(localString) == \E i \in 1..Len(localString) : localString[i] = NUL

\* WriteString without the case for the NUL
WriteString_EmitNul(localString) ==
    [threw |-> FALSE, s |-> <<DQ>> \o EscapeFrom(localString, 1) \o <<DQ>>]

\* case JValueType::JString of write_ and of formatWrite
WriteString(localString) ==
    IF HasNul(localString) THEN [threw |-> TRUE, s |-> <<>>]
    ELSE [threw |-> FALSE, s |-> <<DQ>> \o EscapeFrom(localString, 1) \o <<DQ>>]

RECURSIVE write_(_)
RECURSIVE WriteListFrom(_, _)
RECURSIVE WriteDictFrom(_, _)

WriteListFrom(list, i) ==
    IF i > Len(list) THEN [threw |-> FALSE, s |-> <<>>]
    ELSE LET item == write_(list[i])
             rest == WriteListFrom(list, i + 1)
         IN  IF item.threw \/ rest.threw THEN [threw |-> TRUE, s |-> <<>>]
             ELSE [threw |-> FALSE,
                   s |-> item.s \o (IF i + 1 <= Len(list) THEN <<",">> ELSE <<>>) \o rest.s]

WriteDictFrom(dict, i) ==
    IF i > Len(dict) THEN [threw |-> FALSE, s |-> <<>>]
    ELSE LET item == write_(dict[i][2])
             rest == WriteDictFrom(dict, i + 1)
         IN  IF item.threw \/ rest.threw THEN [threw |-> TRUE, s |-> <<>>]
             ELSE [threw |-> FALSE,
                   s |-> <<DQ>> \o dict[i][1] \o <<DQ, ":">> \o item.s
                         \o (IF i + 1 <= Len(dict) THEN <<",">> ELSE <<>>) \o rest.s]

\* JWriter::write_ (and JWriter::write, which returns its buffer)
write_(jobj) ==
    CASE jobj.m_type = "JNull"   -> [threw |-> FALSE, s |-> <<"n", "u", "l", "l">>]
      [] jobj.m_type = "JInt"    -> [threw |-> FALSE, s |-> IntToString(jobj.m_value)]
      [] jobj.m_type = "JDouble" -> [threw |-> FALSE, s |-> DoubleToString(jobj.m_value)]
      [] jobj.m_type = "JBool"   ->
            [threw |-> FALSE,
             s |-> IF jobj.m_value THEN <<"t", "r", "u", "e">>
                   ELSE <<"f", "a", "l", "s", "e">>]
      [] jobj.m_type = "JString" -> WriteString(jobj.m_value)
      [] jobj.m_type = "JList"   ->
            IF Len(jobj.m_value) = 0 THEN [threw |-> FALSE, s |-> <<"[", "]">>]
            ELSE LET body == WriteListFrom(jobj.m_value, 1) IN
                 IF body.threw THEN body
                 ELSE [threw |-> FALSE, s |-> <<"[">> \o body.s \o <<"]">>]
      [] jobj.m_type = "JDict"   ->
            IF Len(jobj.m_value) = 0 THEN [threw |-> FALSE, s |-> <<"{", "}">>]
            ELSE LET body == WriteDictFrom(jobj.m_value, 1) IN
                 IF body.threw THEN body
                 ELSE [threw |-> FALSE, s |-> <<"{">> \o body.s \o <<"}">>]

\* sizeof(double_t), double_t being long double
SizeofDoubleT == 16

\* JWriter::getJObjectSurmisedSize
RECURSIVE getJObjectSurmisedSize(_)
RECURSIVE SurmisedListFrom(_, _)
RECURSIVE SurmisedDictFrom(_, _)
SurmisedListFrom(list, i) ==
    IF i > Len(list) THEN 0
    ELSE getJObjectSurmisedSize(list[i]) + 1 + SurmisedListFrom(list, i + 1)
SurmisedDictFrom(dict, i) ==
    IF i > Len(dict) THEN 0
    ELSE Len(dict[i][1]) + getJObjectSurmisedSize(dict[i][2]) + 4
         + SurmisedDictFrom(dict, i + 1)
getJObjectSurmisedSize(jobj) ==
    CASE jobj.m_type = "JNull"   -> 4
      [] jobj.m_type = "JInt"    -> SizeofIntT * 2
      [] jobj.m_type = "JDouble" -> SizeofDoubleT * 2
      [] jobj.m_type = "JBool"   -> 5
      [] jobj.m_type = "JString" ->
            IF Len(jobj.m_value) = 0 THEN 2 ELSE Len(jobj.m_value) + 2
      [] jobj.m_type = "JList"   ->
            IF Len(jobj.m_value) = 0 THEN 2
            ELSE SurmisedListFrom(jobj.m_value, 1) + Len(jobj.m_value) + 2
      [] jobj.m_type = "JDict"   ->
            IF Len(jobj.m_value) = 0 THEN 2
            ELSE SurmisedDictFrom(jobj.m_value, 1) + Len(jobj.m_value) + 2

\* Spaces with one space fewer
RECURSIVE Spaces_Short(_)
Spaces_Short(k) == IF k <= 1 THEN <<>> ELSE <<" ">> \o Spaces_Short(k - 1)

RECURSIVE Spaces(_)
Spaces(k) == IF k <= 0 THEN <<>> ELSE <<" ">> \o Spaces(k - 1)

RECURSIVE formatWrite(_, _, _)
RECURSIVE FormatListFrom(_, _, _, _)
RECURSIVE FormatDictFrom(_, _, _, _)

FormatListFrom(list, i, indent, n) ==
    IF i > Len(list) THEN [threw |-> FALSE, s |-> <<>>]
    ELSE LET item == formatWrite(list[i], indent, n + 1)
             rest == FormatListFrom(list, i + 1, indent, n)
         IN  IF item.threw \/ rest.threw THEN [threw |-> TRUE, s |-> <<>>]
             ELSE [threw |-> FALSE,
                   s |-> Spaces(n * indent) \o item.s
                         \o (IF i + 1 <= Len(list) THEN <<",", LF>> ELSE <<>>) \o rest.s]

FormatDictFrom(dict, i, indent, n) ==
    IF i > Len(dict) THEN [threw |-> FALSE, s |-> <<>>]
    ELSE LET item == formatWrite(dict[i][2], indent, n + 1)
             rest == FormatDictFrom(dict, i + 1, indent, n)
         IN  IF item.threw \/ rest.threw THEN [threw |-> TRUE, s |-> <<>>]
             ELSE [threw |-> FALSE,
                   s |-> Spaces(n * indent) \o <<DQ>> \o dict[i][1] \o <<DQ, ":", " ">>
                         \o item.s
                         \o (IF i + 1 <= Len(dict) THEN <<",", LF>> ELSE <<>>) \o rest.s]

\* JWriter::formatWrite(jobject, indent, n)
formatWrite(jobj, indent, n) ==
    CASE jobj.m_type = "JNull"   -> [threw |-> FALSE, s |-> <<"n", "u", "l", "l">>]
      [] jobj.m_type = "JInt"    -> [threw |-> FALSE, s |-> IntToString(jobj.m_value)]
      [] jobj.m_type = "JDouble" -> [threw |-> FALSE, s |-> DoubleToString(jobj.m_value)]
      [] jobj.m_type = "JBool"   ->
            [threw |-> FALSE,
             s |-> IF jobj.m_value THEN <<"t", "r", "u", "e">>
                   ELSE <<"f", "a", "l", "s", "e">>]
      [] jobj.m_type = "JString" -> WriteString(jobj.m_value)
      [] jobj.m_type = "JList"   ->
            LET body == FormatListFrom(jobj.m_value, 1, indent, n) IN
            IF body.threw THEN body
            ELSE [threw |-> FALSE,
                  s |-> <<"[", LF>> \o body.s \o <<LF>> \o Spaces((n - 1) * indent) \o <<"]">>]
      [] jobj.m_type = "JDict"   ->
            LET body == FormatDictFrom(jobj.m_value, 1, indent, n) IN
            IF body.threw THEN body
            ELSE [threw |-> FALSE,
                  s |-> <<"{", LF>> \o body.s \o <<LF>> \o Spaces((n - 1) * indent) \o <<"}">>]

\* JObject::to_string(indent): indent 0 asks for the compact form
to_string(jobj, indent) ==
    IF indent = 0 THEN write_(jobj) ELSE formatWrite(jobj, indent, 1)

---------------------------------------------------------------------------
(* JParser.  iter counts from 0 as in the code; data[iter] is At(data,     *)
(* iter, ub).  ub fixes what the build does where the code's behaviour is  *)
(* undefined: ub.oob is the character a read at or past data_size yields,  *)
(* or OobTrap where the build checks the index of data[iter] and aborts;   *)
(* ub.neg is "wrap" or "trap" for the negation of the least int_t.         *)
(* A call returns [st, val, iter, line]: st is "ok" (val returned, cursor  *)
(* at iter), "throw" (std::logic_error carrying line) or "abort" (a trap). *)

At(d, i, ub) == IF i < Len(d) THEN d[i + 1] ELSE ub.oob

OobTrap == "trap"

\* data[i] is a read at or past data_size in a build that checks it
Traps(d, i, ub) == i >= Len(d) /\ ub.oob = OobTrap

Throw(line) == [st |-> "throw", val |-> JObject_Null, iter |-> 0, line |-> line]

Abort == [st |-> "abort", val |-> JObject_Null, iter |-> 0, line |-> 0]

Return(val, iter) == [st |-> "ok", val |-> val, iter |-> iter, line |-> 0]

\* JParser::skipSpace: the cursor and the line counter after it
RECURSIVE skipSpace(_, _, _)
skipSpace(d, iter, error_line) ==
    IF iter < Len(d) /\ d[iter + 1] \in {" ", TAB, LF}
    THEN skipSpace(d, iter + 1, IF d[iter + 1] = LF THEN error_line + 1 ELSE error_line)
    ELSE [iter |-> iter, line |-> error_line]

\* Unescape with \b left untranslated
Unescape_NoBackspace(c) ==
    CASE c = "n" -> <<LF>>
      [] c = "b" -> <<"b">>
      [] c = "f" -> <<FF>>
      [] c = "r" -> <<CR>>
      [] c = "t" -> <<TAB>>
      [] c = BSL -> <<BSL>>
      [] c = DQ  -> <<DQ>>
      [] c = "/" -> <<"/">>
      [] OTHER   -> <<>>

\* the switch of getString over the character after a backslash; <<>> is the
\* default branch
Unescape(c) ==
    CASE c = "n" -> <<LF>>
      [] c = "b" -> <<BS>>
      [] c = "f" -> <<FF>>
      [] c = "r" -> <<CR>>
      [] c = "t" -> <<TAB>>
      [] c = BSL -> <<BSL>>
      [] c = DQ  -> <<DQ>>
      [] c = "/" -> <<"/">>
      [] OTHER   -> <<>>

\* the while loop of getString, then the check that follows it
RECURSIVE StringLoop(_, _, _, _, _)
StringLoop(d, iter, s, error_line, ub) ==
    IF iter < Len(d) /\ d[iter + 1] # DQ
    THEN IF d[iter + 1] = BSL
         THEN LET u == Unescape(At(d, iter + 1, ub)) IN
              IF Traps(d, iter + 1, ub) THEN Abort
              ELSE IF u = <<>> THEN Throw(error_line)
              ELSE StringLoop(d, iter + 2, s \o u, error_line, ub)
         ELSE StringLoop(d, iter + 1, Append(s, d[iter + 1]), error_line, ub)
    ELSE IF iter >= Len(d) THEN Throw(error_line)
    ELSE Return(JObject_String(s), iter + 1)

\* JParser::getString
getString(d, iter, error_line, ub) ==
    IF Traps(d, iter, ub) THEN Abort
    ELSE IF At(d, iter, ub) = DQ THEN StringLoop(d, iter + 1, <<>>, error_line, ub)
    ELSE Throw(error_line)

\* std::memcmp(data.data(), lit, n) != 0: it compares the first n bytes of
\* the whole buffer, whatever the cursor
MemcmpDiffers(d, lit, n) == SubSeq(d, 1, n) # lit

\* JParser::getBool
getBool(d, iter, error_line) ==
    IF Len(d) >= iter + 4 /\ MemcmpDiffers(d, <<"t", "r", "u", "e">>, 4)
    THEN Return(JObject_Bool(TRUE), iter + 4)
    ELSE IF Len(d) >= iter + 5 /\ MemcmpDiffers(d, <<"f", "a", "l", "s", "e">>, 5)
    THEN Return(JObject_Bool(FALSE), iter + 5)
    ELSE Throw(error_line)

\* JParser::getNull
getNull(d, iter, error_line) ==
    IF Len(d) >= iter + 4 /\ MemcmpDiffers(d, <<"n", "u", "l", "l">>, 4)
    THEN Return(JObject_Null, iter + 4)
    ELSE Throw(error_line)

\* the first loop of getNumber: where the literal ends, whether a '.' was
\* seen, and the number of characters counted after it
RECURSIVE NumScan(_, _, _, _, _)
NumScan(d, iter, firstNum, isDouble, count) ==
    IF iter < Len(d) /\ (d[iter + 1] \in Digits \/ d[iter + 1] = ".")
    THEN IF ~firstNum /\ d[iter + 1] \in Digits
         THEN NumScan(d, iter + 1, TRUE, isDouble, count)
         ELSE IF isDouble
         THEN NumScan(d, iter + 1, firstNum, isDouble, count + 1)
         ELSE IF d[iter + 1] = "."
         THEN IF ~firstNum
              THEN [threw |-> TRUE, iter |-> iter, isDouble |-> isDouble, count |-> count]
              ELSE NumScan(d, iter + 1, firstNum, TRUE, count)
         ELSE NumScan(d, iter + 1, firstNum, isDouble, count)
    ELSE [threw |-> FALSE, iter |-> iter, isDouble |-> isDouble, count |-> count]

\* the loop "for (i = iter - 2; i >= start; --i, single *= 10)" of the double
\* branch: continue runs the loop's step too, so a skipped '.' still
\* multiplies single.  (single, a size_t, wraps at 2^64, beyond the literals
\* of the model.)
RECURSIVE DoubleAcc(_, _, _, _, _)
DoubleAcc(d, i, start, single, number) ==
    IF i < start THEN number
    ELSE IF d[i + 1] = "." THEN DoubleAcc(d, i - 1, start, single * 10, number)
    ELSE DoubleAcc(d, i - 1, start, single * 10, number + single * MinusZero(d[i + 1]))

\* the same loop of the integer branch: the sum is taken in unsigned
\* arithmetic and converted back to long long
RECURSIVE IntAcc(_, _, _, _, _)
IntAcc(d, i, start, single, number) ==
    IF i < start THEN number
    ELSE IntAcc(d, i - 1, start, single * 10,
                ToIntT(number + single * MinusZero(d[i + 1])))

\* JParser::getNumber
getNumber(d, iter, error_line, ub) ==
    LET isNegative == d[iter + 1] = "-"
        start      == IF isNegative THEN iter + 1 ELSE iter
        scan       == NumScan(d, start, FALSE, FALSE, 0)
        last       == MinusZero(d[scan.iter])
    IN  IF scan.threw THEN Throw(error_line)
        ELSE IF scan.isDouble
        THEN LET number == DoubleAcc(d, scan.iter - 2, start, 10, last) IN
             Return(JObject_Double(IF isNegative THEN -number ELSE number, scan.count),
                    scan.iter)
        ELSE LET number == IntAcc(d, scan.iter - 2, start, 10, last) IN
             IF ~isNegative THEN Return(JObject_Int(number), scan.iter)
             ELSE IF number # IntMin THEN Return(JObject_Int(-number), scan.iter)
             ELSE \* number *= -1 overflows long long: undefined behaviour
                  IF ub.neg = "wrap" THEN Return(JObject_Int(IntMin), scan.iter)
                  ELSE Abort

RECURSIVE parse_(_, _, _)
RECURSIVE DictLoop(_, _, _, _, _)
RECURSIVE ListLoop(_, _, _, _, _)

\* the while loop of the '{' branch of parse_, then the code after it
DictLoop(d, iter, error_line, localJO, ub) ==
    IF iter < Len(d) /\ d[iter + 1] # "}"
    THEN LET sp1 == skipSpace(d, iter, error_line) IN
         IF Traps(d, sp1.iter, ub) THEN Abort
         ELSE IF At(d, sp1.iter, ub) = "}" THEN Return(localJO, sp1.iter)
         ELSE LET key == getString(d, sp1.iter, sp1.line, ub) IN
         IF key.st # "ok" THEN key
         ELSE LET sp2 == skipSpace(d, key.iter, sp1.line) IN
         IF Traps(d, sp2.iter, ub) THEN Abort
         ELSE IF At(d, sp2.iter, ub) # ":" THEN Throw(sp2.line)
         ELSE LET sp3 == skipSpace(d, sp2.iter + 1, sp2.line)
                  v   == parse_(d, sp3.iter, ub)
              IN
         IF v.st # "ok" THEN v
         ELSE LET jo  == JObject_key_assign(localJO, key.val.m_value, v.val).obj
                  sp4 == skipSpace(d, v.iter, sp3.line)
                  c   == At(d, sp4.iter, ub)
              IN
         IF Traps(d, sp4.iter, ub) THEN Abort
         ELSE IF c # "," /\ c # "}" THEN Throw(sp4.line)
         ELSE IF c = "}" THEN Return(jo, sp4.iter + 1)
         ELSE LET sp5 == skipSpace(d, sp4.iter + 1, sp4.line) IN
              DictLoop(d, sp5.iter, sp5.line, jo, ub)
    ELSE IF Traps(d, iter, ub) THEN Abort
    ELSE IF At(d, iter, ub) = "}" THEN Return(localJO, iter + 1)
    ELSE Throw(error_line)

\* the while loop of the '[' branch of parse_, then the code after it
ListLoop(d, iter, error_line, localJO, ub) ==
    IF iter < Len(d) /\ d[iter + 1] # "]"
    THEN LET sp1 == skipSpace(d, iter, error_line) IN
         IF Traps(d, sp1.iter, ub) THEN Abort
         ELSE IF At(d, sp1.iter, ub) = "]" THEN Return(localJO, sp1.iter)
         ELSE LET v == parse_(d, sp1.iter, ub) IN
         IF v.st # "ok" THEN v
         ELSE LET jo  == JObject_push_back_move(localJO, v.val).obj
                  sp2 == skipSpace(d, v.iter, sp1.line)
                  c   == At(d, sp2.iter, ub)
              IN
         IF Traps(d, sp2.iter, ub) THEN Abort
         ELSE IF c # "," /\ c # "]" THEN Throw(sp2.line)
         ELSE IF c = "]" THEN Return(jo, sp2.iter + 1)
         ELSE LET sp3 == skipSpace(d, sp2.iter + 1, sp2.line) IN
              ListLoop(d, sp3.iter, sp3.line, jo, ub)
    ELSE IF Traps(d, iter, ub) THEN Abort
    ELSE IF At(d, iter, ub) = "]" THEN Return(localJO, iter)
    ELSE Throw(error_line)

\* JParser::parse_
parse_(d, iter0, ub) ==
    IF Len(d) = 0 THEN Throw(0)
    ELSE LET sp == skipSpace(d, iter0, 0)
             c  == d[sp.iter + 1]
         IN
    IF Len(d) <= sp.iter THEN Throw(sp.line)
    ELSE IF c = "{" THEN DictLoop(d, sp.iter + 1, sp.line, JObject_Type("JDict"), ub)
    ELSE IF c = "[" THEN ListLoop(d, sp.iter + 1, sp.line, JObject_Type("JList"), ub)
    ELSE IF c = DQ THEN getString(d, sp.iter, sp.line, ub)
    ELSE IF c = "n" THEN getNull(d, sp.iter, sp.line)
    ELSE IF c = "t" \/ c = "f" THEN getBool(d, sp.iter, sp.line)
    ELSE IF c \in Digits \/ c = "-" THEN getNumber(d, sp.iter, sp.line, ub)
    ELSE Throw(sp.line)

\* JParser::parse
parse(d, ub) == parse_(d, 0, ub)

---------------------------------------------------------------------------
(* INIParser.  The cursor i is the offset of the iterator from             *)
(* data.begin().  An INIObject is a function from section names to         *)
(* functions from keys to values.  parse returns [st, val, iter, line]     *)
(* as the JSON parser does; st = "overrun" says the iterator has been      *)
(* incremented past data.end() and the loop goes on outside the buffer,    *)
(* which is undefined.                                                     *)

\* INIParser::skipSpace: fails when the end of the data is reached
RECURSIVE INIParser_skipSpace(_, _, _)
RECURSIVE INIParser_skipComment(_, _)
INIParser_skipComment(d, i) ==
    IF i < Len(d) /\ d[i + 1] # LF THEN INIParser_skipComment(d, i + 1) ELSE i
INIParser_skipSpace(d, i, error_line) ==
    IF i < Len(d) /\ d[i + 1] \in {" ", LF, TAB, ";", "#", NUL}
    THEN IF d[i + 1] \in {";", "#"}
         THEN INIParser_skipSpace(d, INIParser_skipComment(d, i), error_line)
         ELSE INIParser_skipSpace(d, i + 1,
                                  IF d[i + 1] = LF THEN error_line + 1 ELSE error_line)
    ELSE [ok |-> i # Len(d), i |-> i, line |-> error_line]

\* INIParser::getString: the characters up to a delimiter, and the cursor
RECURSIVE INIParser_getString(_, _, _)
INIParser_getString(d, i, localString) ==
    IF i < Len(d) /\ d[i + 1] \notin {" ", LF, TAB, "[", "]", "=", ";"}
    THEN INIParser_getString(d, i + 1, Append(localString, d[i + 1]))
    ELSE [s |-> localString, i |-> i]

\* the for loop of INIParser::parse from the test i != data.end()
RECURSIVE INIParser_loop(_, _, _, _, _, _)
INIParser_loop(d, i, error_line, localSection, localObject, ub) ==
    IF i = Len(d) THEN [st |-> "ok", val |-> localObject, iter |-> i, line |-> error_line]
    ELSE IF i > Len(d)
    THEN [st |-> "overrun", val |-> localObject, iter |-> i, line |-> error_line]
    ELSE LET sp == INIParser_skipSpace(d, i, error_line) IN
    IF ~sp.ok THEN [st |-> "ok", val |-> localObject, iter |-> sp.i, line |-> sp.line]
    ELSE IF d[sp.i + 1] = "[" THEN
        LET sp1 == INIParser_skipSpace(d, sp.i + 1, sp.line) IN
        IF ~sp1.ok THEN Throw(sp1.line)
        ELSE LET name == INIParser_getString(d, sp1.i, <<>>)
                 sp2  == INIParser_skipSpace(d, name.i, sp1.line)
             IN
        IF ~sp2.ok THEN Throw(sp2.line)
        ELSE IF d[sp2.i + 1] = "]"
        THEN INIParser_loop(d, sp2.i + 2, sp2.line, name.s, localObject, ub)
        ELSE Throw(sp2.line)
    ELSE IF d[sp.i + 1] = "=" THEN Throw(sp.line)
    ELSE IF localSection = <<>> THEN Throw(sp.line)
    ELSE LET localKey == INIParser_getString(d, sp.i, <<>>) IN
        IF Traps(d, localKey.i, ub) THEN Abort
        ELSE IF At(d, localKey.i, ub) # "=" THEN Throw(sp.line)
        ELSE LET value == INIParser_getString(d, localKey.i + 1, <<>>)
                 old   == IF localSection \in DOMAIN localObject
                          THEN localObject[localSection] ELSE <<>>
                 keys  == [k \in DOMAIN old \cup {localKey.s} |->
                              IF k = localKey.s THEN value.s ELSE old[k]]
             IN  INIParser_loop(d, value.i + 1, sp.line, localSection,
                                [x \in DOMAIN localObject \cup {localSection} |->
                                    IF x = localSection THEN keys ELSE localObject[x]],
                                ub)

\* INIParser::parse (and INIParser::fastParse, which calls it)
INIParser_parse(d, ub) == INIParser_loop(d, 0, 0, <<>>, <<>>, ub)

---------------------------------------------------------------------------
(* Bounds of the model *)

MaxLen    == 2    \* elements of a JList, members of a JDict
MaxDepth  == 2    \* nesting of containers
MaxIndent == 2    \* indent widths 1..MaxIndent
MaxNumLen == 4    \* characters of a number literal
MaxStrLen == 3    \* characters of a string value, items of a string literal
MaxErrLen == 4    \* items before the offending character of a broken document
MaxIniLen == 2    \* key lines of an INI document

RECURSIVE Depth(_)
RECURSIVE MaxDepthFrom(_, _, _)
MaxDepthFrom(l, i, isDict) ==
    IF i > Len(l) THEN 0
    ELSE LET dd   == Depth(IF isDict THEN l[i][2] ELSE l[i])
             rest == MaxDepthFrom(l, i + 1, isDict)
         IN  IF dd > rest THEN dd ELSE rest
Depth(v) ==
    IF v.m_type = "JList" THEN 1 + MaxDepthFrom(v.m_value, 1, FALSE)
    ELSE IF v.m_type = "JDict" THEN 1 + MaxDepthFrom(v.m_value, 1, TRUE)
    ELSE 0

InBounds(v) ==
    /\ Depth(v) <= MaxDepth
    /\ v.m_type \in {"JList", "JDict"} => Len(v.m_value) <= MaxLen

\* what the client constructs a JObject from
Scalars ==
    {JObject_Null, JObject_Int(0), JObject_Int(7), JObject_Int(-12),
     JObject_Bool(TRUE), JObject_Bool(FALSE),
     JObject_Double(5, 1), JObject_Double(35, 1),
     JObject_String(<<>>), JObject_String(<<"a">>), JObject_String(<<"b", DQ>>),
     JObject_Type("JList"), JObject_Type("JDict")}

\* what the client of the value model constructs a JObject from
ValueScalars ==
    {JObject_Null, JObject_Int(1), JObject_Int(7),
     JObject_Bool(TRUE), JObject_Bool(FALSE),
     JObject_Double(5, 1), JObject_Double(10, 1), [m_type |-> "JDouble", m_value |-> NaN],
     JObject_String(<<>>), JObject_String(<<"a">>),
     JObject_Type("JList"), JObject_Type("JDict")}

\* what the client appends or assigns to a member
Elems == {JObject_Null, JObject_Int(1)}

Keys == {<<"a">>, <<"b">>}

\* what the build may do where the code's behaviour is undefined
UBChoices == [oob : {NUL, "]", "}", "n", OobTrap}, neg : {"wrap", "trap"}]

NoCall == [name |-> "none", self |-> JObject_Null, x |-> JObject_Null, threw |-> FALSE]

NoResult == [st |-> "none", val |-> JObject_Null, iter |-> 0, line |-> 0]

\* a call that returns nothing, or threw
NoRet == [has |-> FALSE, val |-> JObject_Null]

---------------------------------------------------------------------------
(* The client's calls on its JObject *)

\* jobject = v: a JObject constructed from a scalar or from a JValueType
Construct(v) ==
    /\ pc = "client"
    /\ jobject' = v
    /\ call' = [name |-> "construct", self |-> jobject, x |-> v, threw |-> FALSE]
    /\ ret' = NoRet
    /\ UNCHANGED <<other, data, origin, result, str, pc>>

\* jobject.push_back(x) with x an lvalue
PushBack(x) ==
    /\ pc = "client"
    /\ LET r == JObject_push_back(jobject, x) IN
       /\ InBounds(r.obj)
       /\ jobject' = r.obj
       /\ call' = [name |-> "push_back", self |-> jobject, x |-> x, threw |-> r.threw]
    /\ ret' = NoRet
    /\ UNCHANGED <<other, data, origin, result, str, pc>>

\* jobject.push_back(JObject(...)), the rvalue overload
PushBackMove(x) ==
    /\ pc = "client"
    /\ LET r == JObject_push_back_move(jobject, x) IN
       /\ InBounds(r.obj)
       /\ jobject' = r.obj
       /\ call' = [name |-> "push_back_move", self |-> jobject, x |-> x, threw |-> r.threw]
    /\ ret' = NoRet
    /\ UNCHANGED <<other, data, origin, result, str, pc>>

\* jobject[key] = x
KeyAssign(key, x) ==
    /\ pc = "client"
    /\ LET r == JObject_key_assign(jobject, key, x) IN
       /\ InBounds(r.obj)
       /\ jobject' = r.obj
       /\ call' = [name |-> "key_assign", self |-> jobject, x |-> x, threw |-> r.threw]
    /\ ret' = NoRet
    /\ UNCHANGED <<other, data, origin, result, str, pc>>

\* JObject outer(JList); outer.push_back(std::move(jobject)); jobject = outer
NestInList ==
    /\ pc = "client"
    /\ LET r == JObject_push_back_move(JObject_Type("JList"), jobject) IN
       /\ InBounds(r.obj)
       /\ jobject' = r.obj
       /\ call' = [name |-> "nest", self |-> jobject, x |-> jobject, threw |-> r.threw]
    /\ ret' = NoRet
    /\ UNCHANGED <<other, data, origin, result, str, pc>>

\* JObject outer(JDict); outer[key] = std::move(jobject); jobject = outer
NestInDict(key) ==
    /\ pc = "client"
    /\ LET r == JObject_key_assign(JObject_Type("JDict"), key, jobject) IN
       /\ InBounds(r.obj)
       /\ jobject' = r.obj
       /\ call' = [name |-> "nest", self |-> jobject, x |-> jobject, threw |-> r.threw]
    /\ ret' = NoRet
    /\ UNCHANGED <<other, data, origin, result, str, pc>>

\* a call on jobject that returned or threw: r is [threw, obj, ret]
Called(name, x, r) ==
    /\ pc = "client"
    /\ InBounds(r.obj)
    /\ jobject' = r.obj
    /\ call' = [name |-> name, self |-> jobject, x |-> x, threw |-> r.threw]
    /\ ret' = [has |-> ~r.threw, val |-> r.ret]
    /\ UNCHANGED <<other, data, origin, result, str, pc>>

\* jobject[k] on a non-const JObject
IndexWrite(k) == Called("index", k, JObject_index(jobject, k))

\* jobject[key] on a non-const JObject
KeyWrite(key) == Called("key", key, JObject_key(jobject, key))

\* std::as_const(jobject)[k]
IndexRead(k) == Called("index_const", k, JObject_index_const(jobject, k))

\* std::as_const(jobject)[key]
KeyRead(key) == Called("key_const", key, JObject_key_const(jobject, key))

\* jobject.pop_back()
PopBack == Called("pop_back", JObject_Null, JObject_pop_back(jobject))

\* jobject.hasMember(key)
HasMember(key) == Called("hasMember", key, JObject_hasMember(jobject, key))

\* jobject.getInt() .. jobject.getPMRString()
Get(name) == Called(name, JObject_Null, JObject_get(jobject, name))

\* jobject == other
Equals ==
    /\ pc = "client"
    /\ call' = [name |-> "eq", self |-> jobject, x |-> other, threw |-> FALSE]
    /\ ret' = [has |-> TRUE, val |-> JEq(jobject, other)]
    /\ UNCHANGED <<jobject, other, data, origin, result, str, pc>>

\* other = jobject
CopyTo ==
    /\ pc = "client"
    /\ other' = JObject_copy_assign(other, jobject)
    /\ call' = [name |-> "copy", self |-> jobject, x |-> other, threw |-> FALSE]
    /\ ret' = NoRet
    /\ UNCHANGED <<jobject, data, origin, result, str, pc>>

\* JObject other(std::move(jobject))
MoveConstruct ==
    /\ pc = "client"
    /\ \E left \in MovedFromValues(jobject) :
          LET r == JObject_move(jobject, left) IN
          /\ other' = r.to
          /\ jobject' = r.from
    /\ call' = [name |-> "move_construct", self |-> jobject, x |-> other, threw |-> FALSE]
    /\ ret' = NoRet
    /\ UNCHANGED <<data, origin, result, str, pc>>

\* other = std::move(jobject)
MoveAssign ==
    /\ pc = "client"
    /\ \E left \in MovedFromValues(jobject) :
          LET r == JObject_move_assign(other, jobject, FALSE, left) IN
          /\ other' = r.to
          /\ jobject' = r.from
    /\ call' = [name |-> "move_assign", self |-> jobject, x |-> other, threw |-> FALSE]
    /\ ret' = NoRet
    /\ UNCHANGED <<data, origin, result, str, pc>>

\* jobject = std::move(jobject)
MoveAssignSelf ==
    /\ pc = "client"
    /\ jobject' = JObject_move_assign(jobject, jobject, TRUE, jobject.m_value).to
    /\ call' = [name |-> "move_self", self |-> jobject, x |-> jobject, threw |-> FALSE]
    /\ ret' = NoRet
    /\ UNCHANGED <<other, data, origin, result, str, pc>>

---------------------------------------------------------------------------
(* Writing and parsing *)

\* data = jobject.to_string(): the compact text, or the exception
Write ==
    /\ pc = "client"
    /\ LET w == to_string(jobject, 0) IN
       /\ data' = w.s
       /\ call' = [name |-> "write", self |-> jobject, x |-> jobject, threw |-> w.threw]
       /\ pc' = IF w.threw THEN "client" ELSE "text"
       /\ origin' = IF w.threw THEN origin ELSE "write"
    /\ ret' = NoRet
    /\ UNCHANGED <<jobject, other, result, str>>

\* data = jobject.to_string(indent) with indent > 0
FormatWrite(indent) ==
    /\ pc = "client"
    /\ LET w == to_string(jobject, indent) IN
       /\ data' = w.s
       /\ call' = [name |-> "formatWrite", self |-> jobject, x |-> jobject, threw |-> w.threw]
       /\ pc' = IF w.threw THEN "client" ELSE "text"
       /\ origin' = IF w.threw THEN origin ELSE "formatWrite"
    /\ ret' = NoRet
    /\ UNCHANGED <<jobject, other, result, str>>

\* result = JParser().parse(data)
Parse ==
    /\ pc = "text"
    /\ \E ub \in UBChoices : result' = parse(data, ub)
    /\ pc' = "parsed"
    /\ UNCHANGED <<jobject, other, call, ret, data, origin, str>>

\* str = JWriter().write(parsed value)
Rewrite ==
    /\ pc = "parsed"
    /\ result.st = "ok"
    /\ str' = write_(result.val)
    /\ pc' = "rewritten"
    /\ UNCHANGED <<jobject, other, call, ret, data, origin, result>>

---------------------------------------------------------------------------
(* Text that reaches the parser from outside.  JsonText(v) is the compact  *)
(* JSON text of a tree by the JSON grammar (not by JWriter): the document  *)
(* a client types for the tree v.                                          *)

PlainChars == {"a", "b", "n", "t", "/"}

IsPlain(s) == \A i \in 1..Len(s) : s[i] \in PlainChars

\* trees of objects with at most one key, arrays, integers, booleans, null
\* and escape-free strings
RECURSIVE InDocClass(_)
InDocClass(v) ==
    CASE v.m_type \in {"JNull", "JInt", "JBool"} -> TRUE
      [] v.m_type = "JDouble" -> FALSE
      [] v.m_type = "JString" -> IsPlain(v.m_value)
      [] v.m_type = "JList"   -> \A i \in 1..Len(v.m_value) : InDocClass(v.m_value[i])
      [] v.m_type = "JDict"   ->
            /\ Len(v.m_value) <= 1
            /\ \A i \in 1..Len(v.m_value) :
                  IsPlain(v.m_value[i][1]) /\ InDocClass(v.m_value[i][2])

RECURSIVE JsonText(_)
RECURSIVE JsonItems(_, _, _)
JsonItems(l, i, isDict) ==
    IF i > Len(l) THEN <<>>
    ELSE (IF isDict THEN <<DQ>> \o l[i][1] \o <<DQ, ":">> \o JsonText(l[i][2])
          ELSE JsonText(l[i]))
         \o (IF i < Len(l) THEN <<",">> ELSE <<>>) \o JsonItems(l, i + 1, isDict)
JsonText(v) ==
    CASE v.m_type = "JNull"   -> <<"n", "u", "l", "l">>
      [] v.m_type = "JBool"   -> IF v.m_value THEN <<"t", "r", "u", "e">>
                                 ELSE <<"f", "a", "l", "s", "e">>
      [] v.m_type = "JInt"    -> IntToString(v.m_value)
      [] v.m_type = "JDouble" -> DoubleToString(v.m_value)
      [] v.m_type = "JString" -> <<DQ>> \o v.m_value \o <<DQ>>
      [] v.m_type = "JList"   -> <<"[">> \o JsonItems(v.m_value, 1, FALSE) \o <<"]">>
      [] v.m_type = "JDict"   -> <<"{">> \o JsonItems(v.m_value, 1, TRUE) \o <<"}">>

\* the client hands the parser the document of the tree it holds
TypeDoc ==
    /\ pc = "client"
    /\ InDocClass(jobject)
    /\ data' = JsonText(jobject)
    /\ origin' = "typed"
    /\ pc' = "text"
    /\ UNCHANGED <<jobject, other, call, ret, result, str>>

\* the same document with a ',' (and possibly a space) put before the
\* closing bracket at p of a container that is not empty
TypeComma(p, ws) ==
    /\ pc = "client"
    /\ InDocClass(jobject)
    /\ LET t == JsonText(jobject) IN
       /\ p \in 2..Len(t)
       /\ t[p] \in {"]", "}"}
       /\ t[p - 1] \notin {"[", "{"}
       /\ data' = SubSeq(t, 1, p - 1) \o <<",">> \o ws \o SubSeq(t, p, Len(t))
    /\ origin' = "comma"
    /\ pc' = "text"
    /\ UNCHANGED <<jobject, other, call, ret, result, str>>

\* number literals: every text of at most MaxNumLen of these characters
NumAlphabet == {"-", ".", "0", "1", "2", "3", "5", "7", "8"}

NumTexts == UNION {[1..n -> NumAlphabet] : n \in 1..MaxNumLen}

\* spellings met on lookahead 't', 'f' and 'n'
LitWords ==
    {<<"t", "r", "u", "e">>, <<"f", "a", "l", "s", "e">>, <<"n", "u", "l", "l">>,
     <<"t", "r", "u">>, <<"f", "a", "l", "s">>, <<"n", "u", "l">>, <<"t">>, <<"n">>,
     <<"t", "r", "u", "x">>, <<"t", "x", "u", "e">>, <<"f", "a", "l", "s", "x">>,
     <<"f", "x", "l", "s", "e">>, <<"n", "u", "l", "x">>, <<"n", "x", "l", "l">>,
     <<"t", "a", "l", "s", "e">>, <<"n", "r", "u", "e">>}

\* the places a literal stands in: the whole document, an array, after an
\* array element, an object member
LitContexts ==
    {<< <<>>, <<>> >>, << <<"[">>, <<"]">> >>, << <<"[", "1", ",">>, <<"]">> >>,
     << <<"{", DQ, "a", DQ, ":">>, <<"}">> >>}

LitTexts == {c[1] \o w \o c[2] : c \in LitContexts, w \in LitWords}

\* string literals: a quote, at most MaxStrLen items, a quote; an item is a
\* plain character or a backslash and the character after it
LitItems ==
    {<<"a">>, <<"/">>, <<"n">>} \cup
    {<<BSL, c>> : c \in {"n", "b", "f", "r", "t", BSL, DQ, "/"}}

RECURSIVE Flatten(_)
Flatten(items) == IF items = <<>> THEN <<>> ELSE Head(items) \o Flatten(Tail(items))

\* the literal "\n\t\"\\" of the escape-fidelity scenario
ExampleLiteral == <<DQ, BSL, "n", BSL, "t", BSL, DQ, BSL, BSL, DQ>>

StrLitTexts ==
    {<<DQ>> \o Flatten(b) \o <<DQ>> : b \in UNION {[1..n -> LitItems] : n \in 0..MaxStrLen}}
    \cup {ExampleLiteral}

\* string values without NUL
StrAlphabet == {"a", "n", "/", LF, BS, FF, CR, TAB, BSL, DQ}

StrValues == UNION {[1..n -> StrAlphabet] : n \in 0..MaxStrLen}

\* documents that break off at a character no JSON token starts with: line
\* feeds, opening brackets and "1," elements, then x
ErrItems == {<<LF>>, <<"[">>, <<"1", ",">>}

ErrTexts ==
    {Flatten(b) \o <<"x">> : b \in UNION {[1..n -> ErrItems] : n \in 0..MaxErrLen}}

\* the member "a":1
Member == <<DQ, "a", DQ, ":", "1">>

\* objects with a structural error: a key that is not quoted, no ':', no
\* value, a member followed by neither ',' nor '}', no '}' before the end
ObjectErrs ==
    {<<"{", "a", ":", "1", "}">>,
     <<"{", DQ, "a", DQ, " ", "1", "}">>,
     <<"{", DQ, "a", DQ, ":", "}">>,
     <<"{">> \o Member \o <<" ">> \o Member \o <<"}">>,
     <<"{">> \o Member \o <<"]">>,
     <<"{">> \o Member,
     <<"{">> \o Member \o <<",">>,
     <<"{", DQ, "a", DQ, ":">>,
     <<"{">>,
     <<"{", " ">>}

\* arrays with a structural error: an element followed by neither ',' nor
\* ']', no ']' before the end
ArrayErrs ==
    {<<"[", "1", " ", "1", "]">>,
     <<"[", "1", "}">>,
     <<"[", "1">>,
     <<"[", "1", ",">>,
     <<"[">>,
     <<"[", " ">>}

\* a document, and the document as an element or a member value
Nestings(t) ==
    {t,
     <<"[">> \o t \o <<"]">>,
     <<"[", "1", ",">> \o t \o <<"]">>,
     <<"{", DQ, "a", DQ, ":">> \o t \o <<"}">>}

StructErrTexts == UNION {Nestings(t) : t \in ObjectErrs \cup ArrayErrs}

\* well-formed objects and arrays
StructOkTexts ==
    UNION {Nestings(t) : t \in {<<"{">> \o Member \o <<"}">>, <<"{", "}">>,
                                <<"[", "1", "]">>, <<"[", "]">>}}

\* the beginnings of string literals: a quote and at most MaxStrLen items
StrBodies ==
    {<<DQ>> \o Flatten(b) :
        b \in UNION {[1..n -> {<<"a">>, <<BSL, "n">>, <<BSL, DQ>>, <<BSL, BSL>>}] :
                        n \in 0..MaxStrLen}}

\* what makes the literal an error: an escape that is none of the eight,
\* the end of the input, the end of the input after a backslash
StrErrEnds == {<<BSL, "x", DQ>>, <<BSL, "u", "a", DQ>>, <<>>, <<BSL>>}

\* the literal as a document, as an element, as a key and as a member value
StrPrefixes == {<<>>, <<"[">>, <<"{">>, <<"{", DQ, "a", DQ, ":">>}

StrErrTexts == {p \o b \o e : p \in StrPrefixes, b \in StrBodies, e \in StrErrEnds}

\* well-formed string literals
StrOkTexts == {b \o <<DQ>> : b \in StrBodies}

\* what the client of the writer holds: strings with and without a NUL and
\* with characters the writer escapes, scalars and empty containers, put
\* in Lists and Dicts two levels deep, under keys with and without
\* characters the writer escapes in a string value
WriterValues ==
    LET strings == {<<>>, <<"a">>, <<NUL>>, <<"a", NUL>>, <<LF>>, <<"a", DQ>>, <<BSL>>, <<" ">>}
        keys    == {<<"a">>, <<"b", DQ>>, <<BSL>>, <<LF>>}
        leaves  == {JObject_String(x) : x \in strings}
                   \cup {JObject_Null, JObject_Int(7), JObject_Bool(TRUE),
                         JObject_Type("JList"), JObject_Type("JDict")}
        list(l)    == JObject_push_back_move(JObject_Type("JList"), l).obj
        dict(k, v) == JObject_key_assign(JObject_Type("JDict"), k, v).obj
        Shapes(v) ==
            {v, list(v), JObject_push_back_move(list(JObject_Int(1)), v).obj}
            \cup {dict(k, v) : k \in keys}
            \cup {JObject_key_assign(dict(<<"a">>, JObject_Int(1)), <<"b">>, v).obj}
    IN  UNION {Shapes(w) : w \in UNION {Shapes(v) : v \in leaves}}

\* the key lines of an INI section: pairs of a key and a value
IniLines ==
    UNION {[1..n -> {<<k, v>> : k \in {<<"a">>, <<"b">>}, v \in {<<"1">>, <<"v", "2">>}}] :
              n \in 0..MaxIniLen}

\* the INI document of the section s with those lines, sep between a key
\* and its value
RECURSIVE IniKeyLines(_, _)
IniKeyLines(lines, sep) ==
    IF lines = <<>> THEN <<>>
    ELSE Head(lines)[1] \o sep \o Head(lines)[2] \o <<LF>> \o IniKeyLines(Tail(lines), sep)
IniDoc(lines, sep) == <<"[", "s", "]", LF>> \o IniKeyLines(lines, sep)

IniTexts ==
    {p \o IniDoc(l, sep) : p \in {<<>>, <<LF>>}, l \in IniLines,
                           sep \in {<<"=">>, <<" ", "=", " ">>, <<" ", "=">>, <<"=", " ">>}}

\* well-formed documents whose tokens are brackets, ',', ':', the number 1
\* and the key "a" or "b"
DocTexts ==
    {<<"[", "]">>, <<"{", "}">>, <<"[", "1", "]">>, <<"[", "1", ",", "1", "]">>,
     <<"{">> \o Member \o <<"}">>,
     <<"[", "[", "]", ",", "1", "]">>, <<"[", "{", "}", ",", "1", "]">>,
     <<"[", "[", "1", "]", ",", "1", "]">>,
     <<"[", "{">> \o Member \o <<"}", ",", "1", "]">>,
     <<"{", DQ, "a", DQ, ":", "{", "}", ",", DQ, "b", DQ, ":", "1", "}">>,
     <<"{", DQ, "a", DQ, ":", "[", "]", ",", DQ, "b", DQ, ":", "1", "}">>,
     <<"{", DQ, "a", DQ, ":", "[", "1", "]", ",", DQ, "b", DQ, ":", "1", "}">>}

\* a document with a space, a tab or a line feed put between two tokens
SpacedTexts ==
    UNION {{SubSeq(t, 1, p) \o <<w>> \o SubSeq(t, p + 1, Len(t)) :
               p \in {q \in 1..(Len(t) - 1) :
                         /\ ~(t[q] = DQ /\ t[q + 1] \in {"a", "b"})
                         /\ ~(t[q] \in {"a", "b"} /\ t[q + 1] = DQ)},
               w \in {" ", TAB, LF}} : t \in DocTexts}

\* a document followed by something that is not whitespace
TrailingTexts ==
    {t \o e : t \in DocTexts \cup {<<"1">>},
              e \in {<<" ", "2">>, <<"x">>, <<"]">>, <<"}">>, <<",", "1">>}}

---------------------------------------------------------------------------
(* Specifications *)

NoText == [threw |-> FALSE, s |-> <<>>]

\* a client that builds a JObject, writes it or types its document, and
\* parses the text
Init ==
    /\ jobject = JObject_Null
    /\ other = JObject_Null
    /\ call = NoCall
    /\ ret = NoRet
    /\ data = <<>>
    /\ origin = "none"
    /\ result = NoResult
    /\ str = NoText
    /\ pc = "client"

Next ==
    \/ \E v \in Scalars : Construct(v)
    \/ \E x \in Elems : PushBack(x)
    \/ \E x \in Elems : PushBackMove(x)
    \/ \E key \in Keys, x \in Elems : KeyAssign(key, x)
    \/ NestInList
    \/ \E key \in Keys : NestInDict(key)
    \/ Write
    \/ \E indent \in 1..MaxIndent : FormatWrite(indent)
    \/ TypeDoc
    \/ \E p \in 1..Len(JsonText(jobject)), ws \in {<<>>, <<" ">>} : TypeComma(p, ws)
    \/ Parse
    \/ Rewrite

Spec == Init /\ [][Next]_vars

\* a client of the value model alone: it builds JObjects, reads and writes
\* their elements, compares, copies and moves them
NextValue ==
    \/ \E v \in ValueScalars : Construct(v)
    \/ \E x \in Elems : PushBack(x)
    \/ \E x \in Elems : PushBackMove(x)
    \/ \E key \in Keys, x \in Elems : KeyAssign(key, x)
    \/ \E k \in 0..MaxLen : IndexWrite(k)
    \/ \E key \in Keys : KeyWrite(key)
    \/ \E k \in 0..MaxLen : IndexRead(k)
    \/ \E key \in Keys : KeyRead(key)
    \/ PopBack
    \/ \E key \in Keys : HasMember(key)
    \/ \E name \in Accessors : Get(name)
    \/ Equals
    \/ CopyTo
    \/ MoveConstruct
    \/ MoveAssign
    \/ MoveAssignSelf

SpecValue == Init /\ [][NextValue]_vars

\* the parser on a text from outside, and the writer on what it returns
InitText(texts) ==
    /\ jobject = JObject_Null
    /\ other = JObject_Null
    /\ call = NoCall
    /\ ret = NoRet
    /\ data \in texts
    /\ origin = "typed"
    /\ result = NoResult
    /\ str = NoText
    /\ pc = "text"

NextText == Parse \/ Rewrite

SpecNumber == InitText(NumTexts) /\ [][NextText]_vars

SpecLiteral == InitText(LitTexts) /\ [][NextText]_vars

SpecStringLiteral == InitText(StrLitTexts) /\ [][NextText]_vars

SpecError == InitText(ErrTexts) /\ [][NextText]_vars

SpecStructure == InitText(StructErrTexts \cup StructOkTexts) /\ [][NextText]_vars

SpecStringError == InitText(StrErrTexts \cup StrOkTexts) /\ [][NextText]_vars

SpecDocument ==
    InitText(DocTexts \cup SpacedTexts \cup TrailingTexts) /\ [][NextText]_vars

\* the writer on a string value, and the parser on what it writes
InitString ==
    /\ jobject \in {JObject_String(s) : s \in StrValues}
                 \cup {JObject_List(<<JObject_String(s)>>) : s \in StrValues}
    /\ other = JObject_Null
    /\ call = NoCall
    /\ ret = NoRet
    /\ data = <<>>
    /\ origin = "none"
    /\ result = NoResult
    /\ str = NoText
    /\ pc = "client"

NextString ==
    \/ Write
    \/ \E indent \in 1..MaxIndent : FormatWrite(indent)
    \/ Parse

SpecString == InitString /\ [][NextString]_vars

\* the writer in both modes on a value of WriterValues, and the parser on
\* what it writes
InitWriter ==
    /\ jobject \in WriterValues
    /\ other = JObject_Null
    /\ call = NoCall
    /\ ret = NoRet
    /\ data = <<>>
    /\ origin = "none"
    /\ result = NoResult
    /\ str = NoText
    /\ pc = "client"

SpecWriter == InitWriter /\ [][NextString]_vars

\* result = INIParser::fastParse(data)
IniParse ==
    /\ pc = "initext"
    /\ \E ub \in UBChoices : result' = INIParser_parse(data, ub)
    /\ pc' = "iniparsed"
    /\ UNCHANGED <<jobject, other, call, ret, data, origin, str>>

\* the INI parser on a text from outside
SpecIni ==
    /\ jobject = JObject_Null /\ other = JObject_Null /\ call = NoCall /\ ret = NoRet
    /\ data \in IniTexts /\ origin = "typed" /\ result = NoResult /\ str = NoText
    /\ pc = "initext"
    /\ [][IniParse]_vars

---------------------------------------------------------------------------
(* What the claims speak of *)

RECURSIVE DecVal(_)
\* the integer written by a sequence of digits
DecVal(ds) ==
    IF ds = <<>> THEN 0
    ELSE 10 * DecVal(SubSeq(ds, 1, Len(ds) - 1)) + MinusZero(ds[Len(ds)])

IsDigit(c) == c \in Digits

HasSign(d) == d # <<>> /\ d[1] = "-"

NumBody(d) == IF HasSign(d) THEN Tail(d) ELSE d

DotCount(b) == Cardinality({i \in 1..Len(b) : b[i] = "."})

\* [-]D with D one or more digits
IsInteger(d) ==
    /\ NumBody(d) # <<>>
    /\ \A i \in 1..Len(NumBody(d)) : NumBody(d)[i] \in Digits

IntegerOf(d) == (IF HasSign(d) THEN -1 ELSE 1) * DecVal(NumBody(d))

\* [-]D.F with D and F one or more digits
IsFraction(d) ==
    LET b == NumBody(d) IN
    /\ Len(b) >= 3
    /\ \A i \in 1..Len(b) : b[i] \in Digits \cup {"."}
    /\ DotCount(b) = 1
    /\ b[1] # "."
    /\ b[Len(b)] # "."

\* sign * (the digits of D followed by those of F) / 10^len(F)
FractionOf(d) ==
    LET b   == NumBody(d)
        dot == CHOOSE i \in 1..Len(b) : b[i] = "."
    IN  [m |-> (IF HasSign(d) THEN -1 ELSE 1) * DecVal(SelectSeq(b, IsDigit)),
         c |-> Len(b) - dot]

\* a lone '-', '-' before a non-digit, a leading '.', a trailing '.', two '.'
IsMalformedNumber(d) ==
    LET b == NumBody(d) IN
    \/ d = <<"-">>
    \/ HasSign(d) /\ b # <<>> /\ b[1] \notin Digits
    \/ b # <<>> /\ b[1] = "."
    \/ /\ b # <<>>
       /\ \A i \in 1..Len(b) : b[i] \in Digits \cup {"."}
       /\ b[1] \in Digits
       /\ (b[Len(b)] = "." \/ DotCount(b) >= 2)

\* the value a literal's text denotes, in the place it stands in
LitValue(w) ==
    IF w = <<"t", "r", "u", "e">> THEN JObject_Bool(TRUE)
    ELSE IF w = <<"f", "a", "l", "s", "e">> THEN JObject_Bool(FALSE)
    ELSE JObject_Null

LitExact == {<<"t", "r", "u", "e">>, <<"f", "a", "l", "s", "e">>, <<"n", "u", "l", "l">>}

LitExpected(c, w) ==
    IF c[1] = <<>> THEN LitValue(w)
    ELSE IF c[1] = <<"[">> THEN JObject_List(<<LitValue(w)>>)
    ELSE IF c[1] = <<"[", "1", ",">> THEN JObject_List(<<JObject_Int(1), LitValue(w)>>)
    ELSE JObject_Dict(<< <<<<"a">>, LitValue(w)>> >>)

\* a string literal's text with every \/ replaced by /
RECURSIVE PlainSlash(_, _)
PlainSlash(d, i) ==
    IF i > Len(d) THEN <<>>
    ELSE IF d[i] = BSL /\ i < Len(d)
    THEN (IF d[i + 1] = "/" THEN <<"/">> ELSE <<BSL, d[i + 1]>>) \o PlainSlash(d, i + 2)
    ELSE <<d[i]>> \o PlainSlash(d, i + 1)

---------------------------------------------------------------------------
(* Claims *)

\* C1: round trip.  Parsing the compact output of a value, and parsing its
\* indented output for any width, succeeds and yields a value equal to it.
C1_RoundTrip ==
    (pc = "parsed" /\ origin \in {"write", "formatWrite"})
        => (result.st = "ok" /\ JEq(result.val, jobject))

\* C2: a literal [-]D.F parses to the Double sign * DF / 10^len(F).
C2_FractionFidelity ==
    (pc = "parsed" /\ IsFraction(data))
        => /\ result.st = "ok"
           /\ result.val.m_type = "JDouble"
           /\ DoubleEq(result.val.m_value, FractionOf(data))

\* C3: a literal [-]D whose value fits in int_t parses to the Int of that
\* value, the sign applied once.
C3_IntegerFidelity ==
    (pc = "parsed" /\ IsInteger(data) /\ IntegerOf(data) \in IntMin..IntMax)
        => /\ result.st = "ok"
           /\ result.val.m_type = "JInt"
           /\ result.val.m_value = IntegerOf(data)

\* C4: on lookahead 't', 'f' or 'n' the parse succeeds exactly when the text
\* at the cursor spells true, false or null, with that value and the cursor
\* moved past the literal; any other spelling is a parse error.  Wherever the
\* literal stands, the whole document included.
C4_LiteralsExact ==
    pc = "parsed" =>
        \A c \in LitContexts, w \in LitWords :
            data = c[1] \o w \o c[2] =>
                IF w \in LitExact
                THEN /\ result.st = "ok"
                     /\ result.val = LitExpected(c, w)
                     /\ result.iter = Len(data)
                ELSE result.st = "throw"

\* C5: a ',' followed (after optional whitespace) by the closing bracket of
\* its container is a syntax error, in arrays and in objects.
C5_TrailingCommaRejected ==
    (pc = "parsed" /\ origin = "comma") => result.st = "throw"

\* C6: a compact document of the class parses to the tree it denotes, and the
\* compact write of that tree is the document, byte for byte.
C6_TextRoundTrip ==
    /\ (pc = "parsed" /\ origin = "typed")
          => (result.st = "ok" /\ result.val = jobject)
    /\ (pc = "rewritten" /\ origin = "typed")
          => (~str.threw /\ str.s = data)

\* C7: a malformed number literal is rejected with a syntax error.
C7_MalformedNumberRejected ==
    (pc = "parsed" /\ IsMalformedNumber(data)) => result.st = "throw"

\* C8: push_back(x) appends x to a List, turns a Null into the List [x], and
\* fails on any other kind, leaving the value as it was.
C8_PushBack ==
    call.name \in {"push_back", "push_back_move"} =>
        IF call.self.m_type = "JList"
        THEN ~call.threw /\ jobject = JObject_List(Append(call.self.m_value, call.x))
        ELSE IF call.self.m_type = "JNull"
        THEN ~call.threw /\ jobject = JObject_List(<<call.x>>)
        ELSE call.threw /\ jobject = call.self

\* C9: for a String value without NUL, alone or in a List, parsing what the
\* writer wrote (compact or indented) yields the value again, with the cursor
\* at the end of the text.
C9_EscapeInverse ==
    pc = "parsed" =>
        /\ result.st = "ok"
        /\ result.val = jobject
        /\ jobject.m_type = "JString" => result.iter = Len(data)

\* a String value with escaped and plain characters has been written
\* indented and parsed
C9_Witness ==
    /\ pc = "parsed"
    /\ origin = "formatWrite"
    /\ jobject = JObject_String(<<DQ, BSL, "n">>)
    /\ data = <<DQ, BSL, DQ, BSL, BSL, "n", DQ>>
    /\ result.st = "ok"

\* C10 as stated: parsing a string literal of plain characters and of the
\* escapes \n \b \f \r \t \\ \" \/ and writing the String gives the literal.
C10_EscapeFidelityAll ==
    pc = "rewritten" => (~str.threw /\ str.s = data)

\* C10 as amended: every such literal parses to a String, and writing it
\* gives the literal with each \/ written as the plain character /.
C10_EscapeFidelity ==
    /\ pc = "parsed" => (result.st = "ok" /\ result.val.m_type = "JString")
    /\ pc = "rewritten" => (~str.threw /\ str.s = PlainSlash(data, 1))

\* the literal "\n\t\"\\" has been parsed to newline, tab, quote, backslash
\* and written back
C10_Witness ==
    /\ pc = "rewritten"
    /\ data = ExampleLiteral
    /\ result.val = JObject_String(<<LF, TAB, DQ, BSL>>)
    /\ str.s = ExampleLiteral


Max(a, b) == IF a > b THEN a ELSE b

\* the elements of a List; a Null has none
ElementsOf(v) == IF v.m_type = "JList" THEN v.m_value ELSE <<>>

\* C11: non-const operator[](k) on a Null (length 0) or on a List of length n
\* never fails and leaves a List of length max(n, k+1) whose first n elements
\* are unchanged and whose new elements, the one at k included, are Null.
C11_IndexedWrite ==
    (call.name = "index" /\ call.self.m_type \in {"JNull", "JList"}) =>
        LET old == ElementsOf(call.self)
            n   == Len(old)
            k   == call.x
        IN  /\ ~call.threw
            /\ jobject.m_type = "JList"
            /\ Len(jobject.m_value) = Max(n, k + 1)
            /\ \A i \in 1..n : jobject.m_value[i] = old[i]
            /\ \A i \in (n + 1)..Len(jobject.m_value) : jobject.m_value[i] = JObject_Null
            /\ ret.has /\ ret.val = jobject.m_value[k + 1]

\* index 1 of the List [1] has been written: the List is [1, null]
C11_Witness ==
    /\ call.name = "index"
    /\ call.self = JObject_List(<<JObject_Int(1)>>)
    /\ call.x = 1
    /\ jobject = JObject_List(<<JObject_Int(1), JObject_Null>>)


\* the members of a Dict; a Null has none
MembersOf(v) == IF v.m_type = "JDict" THEN v.m_value ELSE <<>>

KeysOf(d) == {d[i][1] : i \in 1..Len(d)}

\* the value a key is mapped to
Lookup(d, key) == d[CHOOSE i \in 1..Len(d) : d[i][1] = key][2]

\* C12: non-const operator[](key) makes a Null a Dict of that key mapped to
\* Null; on a Dict it returns the entry of the key, inserted as Null when
\* absent, the other entries unchanged.  Keyed write on a kind other than
\* Null or Dict, and indexed write on a kind other than Null or List, fail
\* and leave the Value as it was.
C12_KeyedWrite ==
    /\ call.name = "key" =>
          IF call.self.m_type \in {"JNull", "JDict"}
          THEN LET old == MembersOf(call.self)
                   new == jobject.m_value
                   key == call.x
               IN  /\ ~call.threw
                   /\ jobject.m_type = "JDict"
                   /\ KeysOf(new) = KeysOf(old) \cup {key}
                   /\ Len(new) = Cardinality(KeysOf(new))
                   /\ \A k \in KeysOf(old) : Lookup(new, k) = Lookup(old, k)
                   /\ key \notin KeysOf(old) => Lookup(new, key) = JObject_Null
                   /\ ret.has /\ ret.val = Lookup(new, key)
          ELSE call.threw /\ ~ret.has /\ jobject = call.self
    /\ (call.name = "index" /\ call.self.m_type \notin {"JNull", "JList"})
          => (call.threw /\ ~ret.has /\ jobject = call.self)

\* the key b has been written in the Dict {a: 1}: the Dict is {a: 1, b: null}
C12_Witness ==
    /\ call.name = "key"
    /\ call.self = JObject_Dict(<< <<<<"a">>, JObject_Int(1)>> >>)
    /\ call.x = <<"b">>
    /\ jobject = JObject_Dict(<< <<<<"a">>, JObject_Int(1)>>, <<<<"b">>, JObject_Null>> >>)


\* the kind an accessor requires
RequiredKind(name) ==
    CASE name = "getInt" -> "JInt" [] name = "getDouble" -> "JDouble"
      [] name = "getBool" -> "JBool" [] name \in {"getString", "getPMRString"} -> "JString"
      [] name = "getList" -> "JList" [] name = "getDict" -> "JDict"

\* C13: a typed accessor on a Value of another kind (Null included) raises an
\* error, returns nothing and leaves the Value unchanged; on the matching
\* kind it returns the stored payload.  hasMember fails on any kind but Dict;
\* on a Dict it is true exactly when the key is present, and inserts nothing.
C13_TypeMismatch ==
    /\ call.name \in Accessors =>
          /\ jobject = call.self
          /\ IF call.self.m_type = RequiredKind(call.name)
             THEN ~call.threw /\ ret.has /\ ret.val = call.self.m_value
             ELSE call.threw /\ ~ret.has
    /\ call.name = "hasMember" =>
          /\ jobject = call.self
          /\ IF call.self.m_type = "JDict"
             THEN ~call.threw /\ ret.has /\ ret.val = (call.x \in KeysOf(call.self.m_value))
             ELSE call.threw /\ ~ret.has

\* getInt has been called on the String "a" and threw
C13_Witness ==
    /\ call.name = "getInt"
    /\ call.self = JObject_String(<<"a">>)
    /\ call.threw
    /\ jobject = JObject_String(<<"a">>)


\* C14: a const operator[](i) with i at or past the List's length, a const
\* operator[](key) with a key the Dict has not, either of them on a Null, and
\* pop_back on an empty List raise an error and leave the Value as it was;
\* pop_back on a non-empty List removes its last element and no other.
C14_BoundsErrors ==
    /\ (/\ call.name = "index_const"
        /\ \/ call.self.m_type = "JNull"
           \/ call.self.m_type = "JList" /\ call.x >= Len(call.self.m_value))
          => (call.threw /\ ~ret.has /\ jobject = call.self)
    /\ (/\ call.name = "key_const"
        /\ \/ call.self.m_type = "JNull"
           \/ call.self.m_type = "JDict" /\ call.x \notin KeysOf(call.self.m_value))
          => (call.threw /\ ~ret.has /\ jobject = call.self)
    /\ (call.name = "pop_back" /\ call.self.m_type = "JList") =>
          LET old == call.self.m_value IN
          IF Len(old) = 0 THEN call.threw /\ jobject = call.self
          ELSE ~call.threw /\ jobject = JObject_List(SubSeq(old, 1, Len(old) - 1))

\* index 1 of the List [1] has been read through the const operator[]
C14_Witness ==
    /\ call.name = "index_const"
    /\ call.self = JObject_List(<<JObject_Int(1)>>)
    /\ call.x = 1
    /\ call.threw
    /\ jobject = JObject_List(<<JObject_Int(1)>>)


\* structural equality in the words of C15: the same kind and, for scalars
\* and strings, equal payloads; for Lists the same length and equal elements
\* in order; for Dicts the same keys with equal values.  nanEq says whether
\* a NaN payload counts as equal to a NaN payload.
RECURSIVE StructEq(_, _, _)
StructEq(a, b, nanEq) ==
    /\ a.m_type = b.m_type
    /\ CASE a.m_type = "JNull" -> TRUE
         [] a.m_type \in {"JInt", "JBool", "JString"} -> a.m_value = b.m_value
         [] a.m_type = "JDouble" ->
               IF IsNaN(a.m_value) \/ IsNaN(b.m_value)
               THEN nanEq /\ IsNaN(a.m_value) /\ IsNaN(b.m_value)
               ELSE a.m_value.m * Pow10(b.m_value.c) = b.m_value.m * Pow10(a.m_value.c)
         [] a.m_type = "JList" ->
               /\ Len(a.m_value) = Len(b.m_value)
               /\ \A i \in 1..Len(a.m_value) : StructEq(a.m_value[i], b.m_value[i], nanEq)
         [] a.m_type = "JDict" ->
               /\ KeysOf(a.m_value) = KeysOf(b.m_value)
               /\ \A k \in KeysOf(a.m_value) :
                     StructEq(Lookup(a.m_value, k), Lookup(b.m_value, k), nanEq)

\* C15 as stated: operator== is structural equality, and is reflexive and
\* symmetric on every Value built through the public API.
C15_EqualityAll ==
    call.name = "eq" =>
        /\ ret.val = StructEq(call.self, call.x, TRUE)
        /\ JEq(call.x, call.self) = ret.val

\* C15 as amended: operator== is structural equality with doubles compared
\* by ==, so that a NaN equals nothing, itself included; it is symmetric.
C15_Equality ==
    call.name = "eq" =>
        /\ ret.val = StructEq(call.self, call.x, FALSE)
        /\ JEq(call.x, call.self) = ret.val

\* two Dicts with the same members inserted in different orders have been
\* compared and found equal
C15_Witness ==
    /\ call.name = "eq"
    /\ call.self = JObject_Dict(<< <<<<"b">>, JObject_Int(1)>>, <<<<"a">>, JObject_Int(1)>> >>)
    /\ call.x = JObject_Dict(<< <<<<"a">>, JObject_Int(1)>>, <<<<"b">>, JObject_Int(1)>> >>)
    /\ ret.val


\* C16: after a move construction or a move assignment of other from jobject,
\* other is what jobject was, and jobject is of kind Null, equal to a
\* default-constructed JObject and written as null; every later operation
\* takes it for a fresh Null: the typed accessors fail, index and key write
\* and push_back do what they do on JObject().  A move assignment of a
\* JObject to itself leaves it as it was.
C16_MoveSemantics ==
    /\ call.name \in {"move_construct", "move_assign"} =>
          /\ other = call.self
          /\ jobject.m_type = "JNull"
          /\ JEq(jobject, JObject_Null) /\ JEq(JObject_Null, jobject)
          /\ write_(jobject) = [threw |-> FALSE, s |-> <<"n", "u", "l", "l">>]
    /\ call.name = "move_self" => jobject = call.self
    /\ call.self.m_type = "JNull" =>
          CASE call.name \in Accessors \cup {"hasMember"} -> call.threw /\ ~ret.has
            [] call.name = "index" ->
                  ~call.threw /\ jobject = JObject_index(JObject_Null, call.x).obj
            [] call.name = "key" ->
                  ~call.threw /\ jobject = JObject_key(JObject_Null, call.x).obj
            [] call.name = "push_back" ->
                  ~call.threw /\ jobject = JObject_push_back(JObject_Null, call.x).obj
            [] call.name = "push_back_move" ->
                  ~call.threw /\ jobject = JObject_push_back_move(JObject_Null, call.x).obj
            [] OTHER -> TRUE

\* a List has been moved into other by move construction, which left
\* jobject a Null
C16_Witness ==
    /\ call.name = "move_construct"
    /\ call.self.m_type = "JList"
    /\ call.self.m_value = <<JObject_Int(1)>>
    /\ other = JObject_List(<<JObject_Int(1)>>)
    /\ jobject.m_type = "JNull"


LFsBefore(d, p) == Cardinality({i \in 1..(p - 1) : d[i] = LF})

\* C17: a parse failure carries the 1-based line of the offending position.
\* In a document of ErrTexts the text before the x is the beginning of a
\* well-formed document or a complete number followed by ',', so a failure
\* is at the x, the last character: the line reported is 1 plus the
\* number of line feeds before it, at every depth.
C17_ErrorLine ==
    (pc = "parsed" /\ result.st = "throw") =>
        result.line = 1 + LFsBefore(data, Len(data))


\* C18: the size estimate is an upper bound of the compact output: when
\* write has written a value, getJObjectSurmisedSize of the value is at
\* least the number of bytes written.
C18_EstimateIsUpperBound ==
    (call.name = "write" /\ ~call.threw /\ pc = "text" /\ origin = "write") =>
        getJObjectSurmisedSize(call.self) >= Len(data)


\* C19: structural syntax errors are rejected: the parse of an object or an
\* array of StructErrTexts, at top level or nested, fails and returns no
\* value.
C19_StructureRejected ==
    (pc = "parsed" /\ data \in StructErrTexts) => result.st = "throw"


\* C20: string-literal errors: the parse of a text of StrErrTexts, whose
\* string literal has an escape that is none of the eight, or is not closed
\* before the end of the input, or ends right after a backslash, fails with
\* a parse error.
C20_StringErrorRejected ==
    (pc = "parsed" /\ data \in StrErrTexts) => result.st = "throw"


RECURSIVE ContainsNulString(_)
ContainsNulString(v) ==
    CASE v.m_type = "JString" -> HasNul(v.m_value)
      [] v.m_type = "JList"   -> \E i \in 1..Len(v.m_value) : ContainsNulString(v.m_value[i])
      [] v.m_type = "JDict"   -> \E i \in 1..Len(v.m_value) : ContainsNulString(v.m_value[i][2])
      [] OTHER -> FALSE

\* C21: writing a value that holds, at any depth, a String value with a NUL
\* fails in compact and in indented mode: the call throws and returns no
\* text.
C21_NulRejected ==
    (call.name \in {"write", "formatWrite"} /\ ContainsNulString(call.self)) =>
        call.threw /\ data = <<>> /\ pc = "client"

\* the indented write of [["a" NUL]] has thrown
C21_Witness ==
    /\ call.name = "formatWrite"
    /\ call.self = JObject_List(<<JObject_List(<<JObject_String(<<"a", NUL>>)>>)>>)
    /\ call.threw
    /\ data = <<>>


\* no key holds a quote or a backslash: the string literals of the text
\* are then delimited as the JSON grammar delimits them
RECURSIVE KeysDelimited(_)
KeysDelimited(v) ==
    CASE v.m_type = "JList" -> \A i \in 1..Len(v.m_value) : KeysDelimited(v.m_value[i])
      [] v.m_type = "JDict" ->
            \A i \in 1..Len(v.m_value) :
                /\ \A j \in 1..Len(v.m_value[i][1]) : v.m_value[i][1][j] \notin {DQ, BSL}
                /\ KeysDelimited(v.m_value[i][2])
      [] OTHER -> TRUE

RECURSIVE LeadingSpaces(_, _)
LeadingSpaces(t, i) ==
    IF i <= Len(t) /\ t[i] = " " THEN 1 + LeadingSpaces(t, i + 1) ELSE 0

\* a scan of the text t from position i, depth containers being open:
\* an opening bracket and a ',' end their line, a line begins with N * depth
\* spaces, or with N * (depth - 1) spaces and a closing bracket, a closing
\* bracket begins its line (fresh), and the brackets balance
RECURSIVE LayoutFrom(_, _, _, _, _, _)
LayoutFrom(t, i, depth, inStr, fresh, N) ==
    IF i > Len(t) THEN depth = 0 /\ ~inStr
    ELSE LET c == t[i] IN
         IF inStr THEN
            IF c = BSL THEN LayoutFrom(t, i + 2, depth, TRUE, FALSE, N)
            ELSE LayoutFrom(t, i + 1, depth, c # DQ, FALSE, N)
         ELSE IF c = DQ THEN LayoutFrom(t, i + 1, depth, TRUE, FALSE, N)
         ELSE IF c \in {"[", "{"} THEN
            /\ i < Len(t) /\ t[i + 1] = LF
            /\ LayoutFrom(t, i + 1, depth + 1, FALSE, FALSE, N)
         ELSE IF c \in {"]", "}"} THEN
            /\ fresh
            /\ depth >= 1
            /\ LayoutFrom(t, i + 1, depth - 1, FALSE, FALSE, N)
         ELSE IF c = "," THEN
            /\ i < Len(t) /\ t[i + 1] = LF
            /\ LayoutFrom(t, i + 1, depth, FALSE, FALSE, N)
         ELSE IF c = LF THEN
            LET k == LeadingSpaces(t, i + 1) IN
            /\ i + 1 + k <= Len(t)
            /\ CASE t[i + 1 + k] \in {"]", "}"} -> k = N * (depth - 1)
                 [] t[i + 1 + k] = LF          -> k = 0
                 [] OTHER                      -> k = N * depth
            /\ LayoutFrom(t, i + 1 + k, depth, FALSE, TRUE, N)
         ELSE LayoutFrom(t, i + 1, depth, FALSE, FALSE, N)

\* C22: in the indented output of width N every child of a container is on
\* a line of its own that begins with N * d spaces, d the child's depth,
\* and the closing bracket of the container is on a line of its own that
\* begins with N * (d - 1) spaces.
C22_IndentedLayout ==
    (call.name = "formatWrite" /\ ~call.threw /\ origin = "formatWrite"
        /\ pc = "text" /\ KeysDelimited(call.self)) =>
        \A N \in 1..MaxIndent :
            data = to_string(call.self, N).s => LayoutFrom(data, 1, 0, FALSE, FALSE, N)

\* [1,["a"]] has been written with width 2
C22_Witness ==
    /\ call.name = "formatWrite"
    /\ pc = "text"
    /\ call.self = JObject_List(<<JObject_Int(1), JObject_List(<<JObject_String(<<"a">>)>>)>>)
    /\ data = <<"[", LF, " ", " ", "1", ",", LF, " ", " ", "[", LF,
                " ", " ", " ", " ", DQ, "a", DQ, LF, " ", " ", "]", LF, "]">>


\* C23: every call of parse ends by returning a value or by raising an
\* error, and a returned value has moved the cursor forward.
C23_ParseTerminates ==
    pc = "parsed" =>
        /\ result.st \in {"ok", "throw"}
        /\ result.st = "ok" => result.iter >= 1


\* C27: the parser never reads data[i] with i >= data_size: on no input
\* does the build that checks the index of operator[] stop the parse.
C27_NoReadPastEnd ==
    pc = "parsed" => parse(data, [oob |-> OobTrap, neg |-> "wrap"]).st # "abort"


\* C24: an INI text of the documented form, a section header line and
\* lines "key = value" with spaces around the '=', is parsed, and the
\* section maps each key to the value of its last line.
C24_IniDocumentedForm ==
    pc = "iniparsed" =>
        \A p \in {<<>>, <<LF>>}, l \in IniLines :
            (Len(l) >= 1 /\ data = p \o IniDoc(l, <<" ", "=", " ">>)) =>
                /\ result.st = "ok"
                /\ <<"s">> \in DOMAIN result.val
                /\ \A j \in 1..Len(l) :
                      (\A h \in (j + 1)..Len(l) : l[h][1] # l[j][1]) =>
                          /\ l[j][1] \in DOMAIN result.val[<<"s">>]
                          /\ result.val[<<"s">>][l[j][1]] = l[j][2]


\* the text without its spaces, tabs and line feeds
StripSpace(t) == SelectSeq(t, LAMBDA c : c \notin {" ", TAB, LF})

\* C25: whitespace between tokens is insignificant: a document with
\* whitespace between two of its tokens is accepted exactly when the
\* document without it is, and gives the same value.
C25_WhitespaceInsignificant ==
    (pc = "parsed" /\ data \in SpacedTexts) =>
        \A ub \in UBChoices :
            LET r == parse(StripSpace(data), ub) IN
            /\ (r.st = "ok") = (result.st = "ok")
            /\ r.st = "ok" =>
                  r.val.m_type = result.val.m_type /\ r.val = result.val


\* C26: when the parse of a value succeeds the cursor is right after the
\* last character of the value's text: after a document that ends with its
\* last token, the cursor is at the end of the input.
C26_CursorAfterValue ==
    (pc = "parsed" /\ result.st = "ok" /\ data \in DocTexts \cup SpacedTexts) =>
        result.iter = Len(data)

\* C28: the whole input is one value: a document followed by anything
\* that is not whitespace is rejected.
C28_TrailingTextRejected ==
    (pc = "parsed" /\ data \in TrailingTexts) => result.st = "throw"


\* C29: a Dict is parsed back, from its compact and from its indented
\* output, as a Dict with the same keys and equal values, whatever
\* characters its keys hold: here a Dict of Ints.
C29_KeysRoundTrip ==
    (pc = "parsed" /\ call.name \in {"write", "formatWrite"}
        /\ call.self.m_type = "JDict"
        /\ \A i \in 1..Len(call.self.m_value) : call.self.m_value[i][2].m_type = "JInt") =>
        /\ result.st = "ok"
        /\ result.val.m_type = "JDict"
        /\ KeysOf(result.val.m_value) = KeysOf(call.self.m_value)
        /\ JEq(result.val, call.self)


\* the text from position i without the spaces and line feeds that are
\* outside its string literals
RECURSIVE StripOutside(_, _, _)
StripOutside(t, i, inStr) ==
    IF i > Len(t) THEN <<>>
    ELSE IF inStr THEN
        IF t[i] = BSL /\ i < Len(t)
        THEN <<t[i], t[i + 1]>> \o StripOutside(t, i + 2, TRUE)
        ELSE <<t[i]>> \o StripOutside(t, i + 1, t[i] # DQ)
    ELSE IF t[i] \in {" ", LF} THEN StripOutside(t, i + 1, FALSE)
    ELSE <<t[i]>> \o StripOutside(t, i + 1, t[i] = DQ)

\* C30: the two modes of the writer agree: the indented write fails
\* exactly when the compact write of the same value fails, and otherwise
\* its text without the spaces and line feeds outside string literals is
\* the compact text.
C30_ModesAgree ==
    call.name = "formatWrite" =>
        /\ call.threw = write_(call.self).threw
        /\ (~call.threw /\ pc = "text" /\ origin = "formatWrite") =>
              StripOutside(data, 1, FALSE) = write_(call.self).s

===========================================================================
